---- MODULE Spec2Model ----
(***************************************************************************)
(* Model of src/src/App.js: the task reducer, the App component's state    *)
(* (useState / useReducer / useTransition / useOptimistic /                *)
(* useDeferredValue), its event handlers and the values it derives on      *)
(* every render (useMemo).                                                 *)
(*                                                                         *)
(* A JavaScript string is a sequence of one-character strings, so that     *)
(* trim(), toLowerCase() and includes() are computed character by          *)
(* character as the runtime computes them.                                 *)
(***************************************************************************)
EXTENDS Integers, Sequences, FiniteSets, TLC

\* ------------------------------------------------------------------ bounds
\* Largest store length explored (Add Task is capped at this length).
MaxTasks == 2
\* Largest reading of the millisecond clock explored.
MaxClock == 2
\* Largest task id of the stores the reducer is applied to directly.
MaxId == 2
\* Largest length of the stores the reducer is applied to directly.
MaxStore == 2

\* ------------------------------------------------------------------ inputs
\* Values typed into the new-task field (e.target.value of line 173).
NewTaskInputs == { <<>>, <<" ">>, <<"A", "b">>, <<" ", "b", " ">> }

\* Values typed into the search field (e.target.value of line 134).
SearchInputs == { <<>>, <<"a", "B">>, <<"B">>, <<"b", "a">> }

\* ------------------------------------------------------- string functions
\* String.prototype.trim: drop leading and trailing white space.
RECURSIVE TrimStart(_)
TrimStart(s) ==
    IF s # <<>> /\ Head(s) = " " THEN TrimStart(Tail(s)) ELSE s

RECURSIVE TrimEnd(_)
TrimEnd(s) ==
    IF s # <<>> /\ s[Len(s)] = " " THEN TrimEnd(SubSeq(s, 1, Len(s) - 1)) ELSE s

\* Mutant: no trimming at all (if (newTask) instead of if (newTask.trim())).
TrimNothing(s) == s

Trim(s) == TrimEnd(TrimStart(s))

\* JavaScript truthiness of a string: the empty string is falsy.
Truthy(s) == s # <<>>

\* String.prototype.toLowerCase, character by character.
LowerChar(c) ==
    CASE c = "A" -> "a"
      [] c = "B" -> "b"
      [] OTHER   -> c

\* Mutant: the comparison is left case-sensitive.
ToLowerCaseKept(s) == s

ToLowerCase(s) == [i \in 1..Len(s) |-> LowerChar(s[i])]

\* String.prototype.includes: needle occurs at some offset of hay.
Includes(hay, needle) ==
    \E k \in 0..(Len(hay) - Len(needle)) :
        SubSeq(hay, k + 1, k + Len(needle)) = needle

\* ------------------------------------------------------------------ state
VARIABLES
    newTask,             \* useState "", line 64
    searchTerm,          \* useState "", line 65
    tasks,               \* useReducer(taskReducer, []), line 69
    completedTasks,      \* useMemo, lines 86-89
    deferredSearchTerm,  \* useDeferredValue(searchTerm), line 121
    filteredTasks,       \* useMemo, lines 122-128
    isPending,           \* useTransition, line 132
    pendingSearchTerm,   \* the setSearchTerm update queued by startTransition, line 135
    optimisticTasks,     \* useOptimistic([], ...), line 141
    now,                 \* the reading Date.now() returns
    state,               \* taskReducer's first argument, when called directly
    action,              \* taskReducer's second argument, when called directly
    reduced              \* taskReducer's return value, when called directly

appVars == <<newTask, searchTerm, tasks, completedTasks, deferredSearchTerm,
             filteredTasks, isPending, pendingSearchTerm, optimisticTasks>>

reducerVars == <<state, action, reduced>>

vars == <<newTask, searchTerm, tasks, completedTasks, deferredSearchTerm,
          filteredTasks, isPending, pendingSearchTerm, optimisticTasks, now,
          state, action, reduced>>

\* No setSearchTerm update is queued.
NoUpdate == [queued |-> FALSE]

\* setSearchTerm(value) queued in the transition lane.
Update(value) == [queued |-> TRUE, value |-> value]

\* No action has been handed to the reducer yet.
NoAction == [type |-> "none"]

\* The type property of a value that has none (a function, for instance).
Undefined == "undefined"

\* 'Optimistic Task', line 151.
OptimisticText ==
    <<"O", "p", "t", "i", "m", "i", "s", "t", "i", "c", " ", "T", "a", "s", "k">>

\* ---------------------------------------------------------------- reducer
\* Mutant: the id comparison is dropped, every task is flipped.
ToggleTaskEvery(task, id) ==
    [id |-> task.id, text |-> task.text, completed |-> ~task.completed]

\* Mutant: the matching task is marked completed instead of inverted.
ToggleTaskSet(task, id) ==
    IF task.id = id
    THEN [id |-> task.id, text |-> task.text, completed |-> TRUE]
    ELSE task

ToggleTask(task, id) ==
    IF task.id = id
    THEN [id |-> task.id, text |-> task.text, completed |-> ~task.completed]
    ELSE task

\* Mutant: "add" stores the trimmed text.
TaskReducerTrimmed(s, a, dateNow) ==
    CASE a.type = "add" ->
           Append(s, [id |-> dateNow, text |-> Trim(a.text), completed |-> FALSE])
      [] a.type = "toggle" ->
           [i \in 1..Len(s) |-> ToggleTask(s[i], a.id)]
      [] a.type = "filter" ->
           a.payload
      [] OTHER -> s

\* Mutant: "add" puts the new task first.
TaskReducerPrepend(s, a, dateNow) ==
    CASE a.type = "add" ->
           <<[id |-> dateNow, text |-> a.text, completed |-> FALSE]>> \o s
      [] a.type = "toggle" ->
           [i \in 1..Len(s) |-> ToggleTask(s[i], a.id)]
      [] a.type = "filter" ->
           a.payload
      [] OTHER -> s

\* taskReducer(state, action); dateNow is what Date.now() returns in "add".
TaskReducer(s, a, dateNow) ==
    CASE a.type = "add" ->
           Append(s, [id |-> dateNow, text |-> a.text, completed |-> FALSE])
      [] a.type = "toggle" ->
           [i \in 1..Len(s) |-> ToggleTask(s[i], a.id)]
      [] a.type = "filter" ->
           a.payload
      [] OTHER -> s

\* The reducer handed to useOptimistic.
OptimisticReducer(s, a) ==
    CASE a.type = "add" -> Append(s, a.task)
      [] OTHER -> s

\* ---------------------------------------------------------- derived values
\* Mutant: the filter callback returns the task, which is always truthy.
CompletedOfEvery(ts) == ts

\* tasks.filter((task) => task.completed)
CompletedOf(ts) == SelectSeq(ts, LAMBDA task : task.completed)

\* tasks.filter((task) => task.text.toLowerCase().includes(term.toLowerCase()))
FilteredOf(ts, term) ==
    SelectSeq(ts, LAMBDA task : Includes(ToLowerCase(task.text), ToLowerCase(term)))

\* Mutant: the deferred copy is never refreshed.
UseDeferredValueStale(prev, value, urgent) == prev

\* useDeferredValue(value): a render of an urgent update that changes the value
\* keeps the previous one (and schedules a background render); a render of
\* a transition returns the new value directly.
UseDeferredValue(prev, value, urgent) ==
    IF value # prev /\ urgent THEN prev ELSE value

\* One render of App: the hooks' new values from the new state.
Render(ts, term, urgent) ==
    /\ completedTasks' = CompletedOf(ts)
    /\ deferredSearchTerm' = UseDeferredValue(deferredSearchTerm, term, urgent)
    /\ filteredTasks' = FilteredOf(ts, UseDeferredValue(deferredSearchTerm, term, urgent))

\* ------------------------------------------------------------------- App
Init ==
    /\ newTask = <<>>
    /\ searchTerm = <<>>
    /\ tasks = <<>>
    /\ completedTasks = <<>>
    /\ deferredSearchTerm = <<>>
    /\ filteredTasks = <<>>
    /\ isPending = FALSE
    /\ pendingSearchTerm = NoUpdate
    /\ optimisticTasks = <<>>
    /\ now = 0
    /\ state = <<>>
    /\ action = NoAction
    /\ reduced = <<>>

\* The millisecond clock advances.
Tick ==
    /\ now < MaxClock
    /\ now' = now + 1
    /\ UNCHANGED <<appVars, reducerVars>>

\* onChange of the new-task field: setNewTask(e.target.value).
SetNewTask(value) ==
    /\ newTask' = value
    /\ Render(tasks, searchTerm, TRUE)
    /\ UNCHANGED <<searchTerm, tasks, isPending, pendingSearchTerm,
                   optimisticTasks, now, reducerVars>>

\* onClick of "Add Task".
AddTask ==
    /\ Len(tasks) < MaxTasks
    /\ IF Truthy(Trim(newTask))
       THEN /\ tasks' = TaskReducer(tasks, [type |-> "add", text |-> newTask], now)
            /\ newTask' = <<>>
            /\ Render(tasks', searchTerm, TRUE)
            /\ UNCHANGED <<searchTerm, isPending, pendingSearchTerm,
                           optimisticTasks, now, reducerVars>>
       ELSE UNCHANGED vars

\* onClick of the "Toggle" button of the row-th rendered task.
Toggle(row) ==
    /\ row \in 1..Len(filteredTasks)
    /\ tasks' = TaskReducer(tasks, [type |-> "toggle", id |-> filteredTasks[row].id], now)
    /\ Render(tasks', searchTerm, TRUE)
    /\ UNCHANGED <<newTask, searchTerm, isPending, pendingSearchTerm,
                   optimisticTasks, now, reducerVars>>

\* onChange of the search field: startTransition(() => setSearchTerm(value)).
HandleSearch(value) ==
    /\ isPending' = TRUE
    /\ pendingSearchTerm' = Update(value)
    /\ Render(tasks, searchTerm, TRUE)
    /\ UNCHANGED <<newTask, searchTerm, tasks, optimisticTasks, now, reducerVars>>

\* onClick of "Add Optimistic Task": the updater function is the action
\* the overlay's reducer receives.
AddOptimisticTask ==
    LET task == [id |-> now, text |-> OptimisticText, completed |-> FALSE]
        updater == [type |-> Undefined, appends |-> task]
    IN  /\ isPending' = TRUE
        /\ optimisticTasks' = OptimisticReducer(optimisticTasks, updater)
        /\ Render(tasks, searchTerm, TRUE)
        /\ UNCHANGED <<newTask, searchTerm, tasks, pendingSearchTerm, now, reducerVars>>

\* The transition lane renders and commits: the queued setSearchTerm is
\* applied, the pending flag is cleared and the overlay returns to the
\* value passed to useOptimistic.
TransitionCommit ==
    /\ isPending
    /\ searchTerm' = IF pendingSearchTerm.queued THEN pendingSearchTerm.value
                                                 ELSE searchTerm
    /\ pendingSearchTerm' = NoUpdate
    /\ isPending' = FALSE
    /\ optimisticTasks' = <<>>
    /\ Render(tasks, searchTerm', FALSE)
    /\ UNCHANGED <<newTask, tasks, now, reducerVars>>

Next ==
    \/ Tick
    \/ \E value \in NewTaskInputs : SetNewTask(value)
    \/ AddTask
    \/ \E row \in 1..MaxTasks : Toggle(row)
    \/ \E value \in SearchInputs : HandleSearch(value)
    \/ AddOptimisticTask
    \/ TransitionCommit

Spec == Init /\ [][Next]_vars

\* The scheduler eventually runs a pending transition.
FairSpec == Spec /\ WF_vars(TransitionCommit)

\* ------------------------------------------------- the reducer on its own
\* taskReducer is a pure function: here it is applied to arbitrary stores
\* (ids repeated or not) and to every kind of action, whether or not App
\* dispatches it.
TaskInputs == [id : 1..MaxId, text : {<<"A", "b">>}, completed : BOOLEAN]

RECURSIVE SeqsUpTo(_, _)
SeqsUpTo(S, n) ==
    IF n = 0 THEN {<<>>}
    ELSE LET shorter == SeqsUpTo(S, n - 1)
         IN  shorter \cup {Append(s, x) : s \in shorter, x \in S}

StoreInputs == SeqsUpTo(TaskInputs, MaxStore)

PayloadInputs ==
    {<<>>, <<[id |-> 1, text |-> <<"A", "b">>, completed |-> TRUE]>>}

ReducerInit ==
    /\ newTask = <<>>
    /\ searchTerm = <<>>
    /\ tasks = <<>>
    /\ completedTasks = <<>>
    /\ deferredSearchTerm = <<>>
    /\ filteredTasks = <<>>
    /\ isPending = FALSE
    /\ pendingSearchTerm = NoUpdate
    /\ optimisticTasks = <<>>
    /\ now \in 0..MaxClock
    /\ state \in StoreInputs
    /\ action = NoAction
    /\ reduced = state

\* reduced = taskReducer(state, action), state being the previous result.
Dispatch(a) ==
    /\ state' = reduced
    /\ action' = a
    /\ reduced' = TaskReducer(reduced, a, now)
    /\ UNCHANGED <<appVars, now>>

DispatchAdd(text) ==
    /\ Len(reduced) < MaxStore
    /\ Dispatch([type |-> "add", text |-> text])

DispatchToggle(id) ==
    /\ id \in 0..(MaxId + 1)
    /\ Dispatch([type |-> "toggle", id |-> id])

DispatchFilter(payload) ==
    /\ payload \in PayloadInputs
    /\ Dispatch([type |-> "filter", payload |-> payload])

\* An action type the switch has no case for.
DispatchUnknown(type) ==
    /\ type \notin {"add", "toggle", "filter"}
    /\ Dispatch([type |-> type])

ReducerNext ==
    \/ \E text \in NewTaskInputs : DispatchAdd(text)
    \/ \E id \in 0..(MaxId + 1) : DispatchToggle(id)
    \/ \E payload \in PayloadInputs : DispatchFilter(payload)
    \/ \E type \in {"remove", Undefined} : DispatchUnknown(type)

ReducerSpec == ReducerInit /\ [][ReducerNext]_vars

\* ------------------------------------------------------------- properties
\* Some character of s is not white space.
NonBlank(s) == \E i \in 1..Len(s) : s[i] # " "

\* The number of tasks of store s whose id is id.
Occurrences(s, id) == Cardinality({i \in 1..Len(s) : s[i].id = id})

\* C1: an Add Task click on an entry text that is not blank makes the store
\* one longer, the new last task has exactly that text and completed = false,
\* and every task already present keeps its place and its fields.
C1_AddTaskAppends ==
    [][(AddTask /\ NonBlank(newTask)) =>
         /\ Len(tasks') = Len(tasks) + 1
         /\ tasks'[Len(tasks')].text = newTask
         /\ tasks'[Len(tasks')].completed = FALSE
         /\ \A i \in 1..Len(tasks) : tasks'[i] = tasks[i]]_vars

\* A store whose last task carries the entry text as typed, white space
\* included, behind an older task.
C1_Witness ==
    /\ Len(tasks) = 2
    /\ tasks[2].text = <<" ", "b", " ">>
    /\ tasks[2].completed = FALSE
    /\ newTask = <<>>

\* C2: an Add Task click on an empty or all-white-space entry changes
\* nothing: the store and every other part of the state stay as they were.
C2_BlankAddRejected ==
    [][(AddTask /\ ~NonBlank(newTask)) => UNCHANGED vars]_vars

\* A white-space entry is in the field, Add Task can be clicked, and the
\* store already holds a task.
C2_Witness ==
    /\ newTask = <<" ">>
    /\ Len(tasks) = 1
    /\ ENABLED AddTask

\* C3: toggle(id) on a store holding id exactly once keeps length and order,
\* inverts that task's completed flag and leaves every other task alone; on
\* a store not holding id it returns the store's content unchanged.
C3_ToggleFrame ==
    action.type = "toggle" =>
      /\ Occurrences(state, action.id) = 1 =>
           /\ Len(reduced) = Len(state)
           /\ \A i \in 1..Len(state) :
                /\ reduced[i].id = state[i].id
                /\ reduced[i].text = state[i].text
                /\ reduced[i].completed =
                     IF state[i].id = action.id THEN ~state[i].completed
                                                ELSE state[i].completed
      /\ Occurrences(state, action.id) = 0 => reduced = state

\* A toggle of an id held once, in a store that also holds another task.
C3_Witness ==
    /\ action.type = "toggle"
    /\ Occurrences(state, action.id) = 1
    /\ Len(state) = 2
    /\ reduced # state

\* C4: the ids of the tasks of the store are pairwise distinct.
C4_IdsDistinct ==
    \A i, j \in 1..Len(tasks) : i # j => tasks[i].id # tasks[j].id

\* C5: an Add Optimistic Task click makes the overlay one longer, its last
\* element being the new task (text 'Optimistic Task', completed = false).
C5_OverlayAppended ==
    [][AddOptimisticTask =>
         /\ Len(optimisticTasks') = Len(optimisticTasks) + 1
         /\ optimisticTasks'[Len(optimisticTasks')] =
              [id |-> now, text |-> OptimisticText, completed |-> FALSE]]_vars

\* The same letter, upper or lower case not counting.
SameLetter(c, d) ==
    \/ c = d
    \/ {c, d} \in {{"a", "A"}, {"b", "B"}}

\* term occurs in text at some position, case not counting.
ContainsIgnoringCase(text, term) ==
    \E start \in 1..(Len(text) + 1) :
        /\ start + Len(term) - 1 <= Len(text)
        /\ \A j \in 1..Len(term) : SameLetter(text[start + j - 1], term[j])

\* C6: the filtered view is, in store order, exactly the tasks whose text
\* contains the deferred search term, case not counting (the empty term
\* matches every task); a search term still waiting in the transition
\* plays no part in it.
C6_FilteredView ==
    filteredTasks =
        SelectSeq(tasks, LAMBDA task : ContainsIgnoringCase(task.text, deferredSearchTerm))

\* The view shows one of two tasks, matched through a difference of case,
\* while a typed search term that would match neither is still pending.
C6_Witness ==
    /\ Len(tasks) = 2
    /\ deferredSearchTerm = <<"a", "B">>
    /\ Len(filteredTasks) = 1
    /\ filteredTasks[1].text = <<"A", "b">>
    /\ isPending
    /\ pendingSearchTerm = Update(<<"b", "a">>)

\* task is listed in view.
Listed(task, view) == \E j \in 1..Len(view) : view[j] = task

\* C7: the completed view is exactly the tasks of the store with
\* completed = true, in store order, and a Toggle click moves each task of
\* the toggled id into the view if it was out of it and out of it if it
\* was in.
C7_CompletedView ==
    /\ [](/\ Len(completedTasks) = Cardinality({i \in 1..Len(tasks) : tasks[i].completed})
          /\ \A j \in 1..Len(completedTasks) : completedTasks[j].completed
          /\ \A i \in 1..Len(tasks) :
                tasks[i].completed => Listed(tasks[i], completedTasks)
          /\ \A j, k \in 1..Len(completedTasks) :
                j < k => \E i, l \in 1..Len(tasks) :
                           i < l /\ tasks[i] = completedTasks[j] /\ tasks[l] = completedTasks[k])
    /\ [][\A row \in 1..Len(filteredTasks) :
            Toggle(row) =>
              \A i \in 1..Len(tasks) :
                 tasks[i].id = filteredTasks[row].id =>
                   /\ Len(tasks') = Len(tasks)
                   /\ Listed(tasks'[i], completedTasks') = ~Listed(tasks[i], completedTasks)]_vars

\* One of two tasks has been toggled to completed and is the only task of
\* the completed view.
C7_Witness ==
    /\ Len(tasks) = 2
    /\ tasks[1].completed
    /\ ~tasks[2].completed
    /\ completedTasks = <<tasks[1]>>

\* C8: toggle(id) applied to the result of toggle(id) gives back the store
\* toggle(id) was first applied to, for every store and every id.
C8_ToggleTwice ==
    action.type = "toggle" => TaskReducer(reduced, action, now) = state

\* A first toggle that changed two tasks sharing one id.
C8_Witness ==
    /\ action.type = "toggle"
    /\ Occurrences(state, action.id) = 2
    /\ reduced # state

\* C9: the pending flag is raised only by a search edit or an Add
\* Optimistic Task click; it is lowered only by the transition's commit,
\* which makes the search term the last one typed; while idle the deferred
\* search term is the search term and the filtered view is the one of that
\* term; and a raised flag is eventually lowered.
C9_PendingCycle ==
    /\ [][(~isPending /\ isPending') =>
            (AddOptimisticTask \/ \E value \in SearchInputs : HandleSearch(value))]_vars
    /\ [][(isPending /\ ~isPending') =>
            /\ TransitionCommit
            /\ pendingSearchTerm.queued => searchTerm' = pendingSearchTerm.value]_vars
    /\ [](~isPending =>
            /\ pendingSearchTerm = NoUpdate
            /\ deferredSearchTerm = searchTerm
            /\ filteredTasks =
                 SelectSeq(tasks, LAMBDA task : ContainsIgnoringCase(task.text, searchTerm)))
    /\ (isPending ~> ~isPending)

\* Idle again after a search edit: the term typed is the search term and
\* the deferred one, and it hides one of the two tasks.
C9_Witness ==
    /\ ~isPending
    /\ searchTerm = <<"a", "B">>
    /\ deferredSearchTerm = <<"a", "B">>
    /\ Len(tasks) = 2
    /\ Len(filteredTasks) = 1

\* C10: no step removes or reorders a task or changes a task's id or text;
\* only Add Task changes the store's length; Add Optimistic Task and search
\* edits leave the store as it is.
C10_AppendOnly ==
    [][/\ Len(tasks') >= Len(tasks)
       /\ \A i \in 1..Len(tasks) :
            /\ tasks'[i].id = tasks[i].id
            /\ tasks'[i].text = tasks[i].text
       /\ Len(tasks') # Len(tasks) => AddTask
       /\ (AddOptimisticTask \/ TransitionCommit
             \/ \E value \in SearchInputs : HandleSearch(value)) => tasks' = tasks]_vars

\* A full store, one task of it toggled, with a transition pending.
C10_Witness ==
    /\ Len(tasks) = MaxTasks
    /\ \E i \in 1..Len(tasks) : tasks[i].completed
    /\ isPending

====
